---------------------------- MODULE Spec2Model ----------------------------
(***************************************************************************)
(* FragileCityScraper: the transport (fetchWithRetry), the batch scheduler *)
(* (processBatch) and the run orchestrator (runFullScrape) of index.js,    *)
(* as state machines.                                                      *)
(***************************************************************************)
EXTENDS Integers, Sequences, FiniteSets, TLC

(* ------------------------------ bounds -------------------------------- *)

\* largest value of options.maxRetries tried by the transport specification
MaxRetriesOpt == 4
\* largest value of options.retryDelay tried by the transport specification
MaxDelayOpt == 2
\* longest item sequence handed to processBatch
MaxItems == 3
\* longest city list a full run extracts (at most MaxItems)
MaxCities == 2
\* largest concurrency argument handed to processBatch directly
MaxConc == 3
\* largest options.maxRetries of a scraper that makes a full run
MaxRunRetries == 1
\* largest options.concurrency of a scraper that makes a full run
MaxRunConc == 1
\* largest row id the database hands out for a scrape run
MaxRunId == 2
\* longest war list handed to the enrichment on its own
MaxWars == 2
\* longest city list of an extraction step taken alone
MaxListed == 2
\* longest text handed to an extraction helper
MaxLen == 4
\* most building sections on a city page
MaxSections == 1

(* ------------------------- program constants -------------------------- *)

DefaultMaxRetries == 3
DefaultRetryDelay == 1000
DefaultConcurrency == 5

(* ------------------------------ values -------------------------------- *)

\* An option of the constructor's options object: <<>> when the key is not
\* given (undefined), <<v>> when it is given with the number v.
NotGiven == << >>

\* `options.x || d`: d when x is undefined or falsy (0), x otherwise.
OrDefault(opt, d) == IF opt = NotGiven \/ opt[1] = 0 THEN d ELSE opt[1]

RECURSIVE Pow2(_)
\* Math.pow(2, n) for the non-negative integers n the retry counter takes.
Pow2(n) == IF n = 0 THEN 1 ELSE 2 * Pow2(n - 1)

\* The calls of fetchWithRetry a process makes, named by their call site.
DirectCall == [fn |-> "caller", item |-> 0]
ListCall == [fn |-> "scrapeCityList", item |-> 0]
WarsCall == [fn |-> "scrapeWars", item |-> 0]
CityCall(k) == [fn |-> "scrapeCity", item |-> k]
Calls == {DirectCall, ListCall, WarsCall} \cup {CityCall(k) : k \in 1..MaxItems}

\* A call of fetchWithRetry that has not begun.
IdleFetch ==
    [pc |-> "idle", retryCount |-> 0, requests |-> 0, delays |-> << >>,
     caught |-> << >>, thrown |-> << >>, response |-> << >>]

\* The item promise of processBatch before its operation is started.
Unstarted == [state |-> "unstarted", value |-> [kind |-> "none", item |-> 0, fields |-> {}]]

\* The value null.
JsNull == [kind |-> "null", item |-> 0, fields |-> {}]

\* The three flat files of a run.
FileNames == {"cities.json", "wars.json", "city_details.json"}

\* The calls runFullScrape makes on the database, in the order of the code.
DbCalls ==
    <<"initialize", "saveScrapeRun", "saveGlobalStats", "saveCities", "saveWars",
      "saveCityDetails">>

VARIABLES
    options,        \* the options object the scraper was constructed with
    maxRetries,     \* this.maxRetries
    retryDelay,     \* this.retryDelay
    fetch,          \* the calls of fetchWithRetry: call site -> frame
    bpc,            \* processBatch: where the call stands
    items,          \* processBatch: the items argument
    concurrency,    \* processBatch: the concurrency argument
    i,              \* processBatch: the loop index
    op,             \* processBatch: item index -> its promise in batchPromises
    invoked,        \* processBatch: item index -> number of calls of processFn
    results,        \* processBatch: the results array
    errors,         \* processBatch: the errors array
    pacings,        \* processBatch: pacing delays that have elapsed (counted up to MaxItems)
    thisConcurrency, \* this.concurrency
    database,       \* this.database is not null
    rpc,            \* runFullScrape: where the call stands
    thisErrors,     \* this.errors
    cityData,       \* runFullScrape: cityData, << >> before scrapeCityList returned
    wars,           \* runFullScrape: wars, << >> before scrapeWars returned
    warsWithValidation, \* runFullScrape: warsWithValidation, << >> before it is built
    files,          \* the flat files: name -> whose data it holds, number of writes
    metadata,       \* runFullScrape: metadata, << >> before it is built
    dbLog,          \* the database calls made so far, in order: the call, the run id
                    \* it was given (saveScrapeRun: the id it returned) and its status
    cause,          \* what made runFullScrape reject ("none" while it has not)
    input,          \* an extraction step taken alone: what it is applied to
    output,         \* an extraction step taken alone: << >>, then <<its result>>
    warnings,       \* this.warnings
    exit,           \* the node process: << >> while it runs, then <<its exit status>>
    stderr,         \* the node process: what console.error of the entry point logged
    wrapper,        \* run-scraper.sh: << >>, then <<the completion line it logged>>
    settled         \* processBatch called alone: the item indices in the order
                    \* in which their operations settled

configVars == <<options, maxRetries, retryDelay, thisConcurrency, database>>
batchVars == <<bpc, items, concurrency, i, op, invoked, results, errors, pacings>>
runVars == <<rpc, thisErrors, cityData, wars, warsWithValidation, files, metadata, dbLog, cause>>
vars == <<options, maxRetries, retryDelay, fetch,
          bpc, items, concurrency, i, op, invoked, results, errors, pacings,
          thisConcurrency, database, rpc, thisErrors, cityData, wars,
          warsWithValidation, files, metadata, dbLog, cause,
          input, output, warnings, exit, stderr, wrapper, settled>>
extractVars == <<input, output, warnings>>
mainVars == <<exit, stderr, wrapper>>
historyVars == <<settled>>

\* The node process runs and the wrapper script has not reached its test.
MainIdle ==
    /\ exit = << >>
    /\ stderr = << >>
    /\ wrapper = << >>

\* No extraction step is being taken alone.
ExtractIdle ==
    /\ input = [kind |-> "none"]
    /\ output = << >>
    /\ warnings = << >>

(* ----------------------------- constructor ----------------------------- *)

RetryOptions == {NotGiven} \cup {<<n>> : n \in 0..MaxRetriesOpt}
DelayOptions == {NotGiven} \cup {<<n>> : n \in 0..MaxDelayOpt}

\* constructor(options): the settings of the scraper; the database exists
\* unless options.enableDatabase is false.
Constructor(optMaxRetries, optRetryDelay, optConcurrency, optEnableDatabase) ==
    /\ options = [maxRetries |-> optMaxRetries, retryDelay |-> optRetryDelay,
                  concurrency |-> optConcurrency, enableDatabase |-> optEnableDatabase]
    /\ maxRetries = OrDefault(optMaxRetries, DefaultMaxRetries)
    /\ retryDelay = OrDefault(optRetryDelay, DefaultRetryDelay)
    /\ thisConcurrency = OrDefault(optConcurrency, DefaultConcurrency)
    /\ database = (optEnableDatabase # <<FALSE>>)

\* runFullScrape has not been called; the flat files hold a previous run's data.
RunIdle ==
    /\ rpc = "idle"
    /\ thisErrors = << >>
    /\ cityData = << >>
    /\ wars = << >>
    /\ warsWithValidation = << >>
    /\ files = [f \in FileNames |-> [run |-> "previous", writes |-> 0]]
    /\ metadata = << >>
    /\ dbLog = << >>
    /\ cause = "none"

(* ---------------------------- fetchWithRetry ---------------------------- *)

\* The error object the HTTP client rejects the n-th request of a call with.
NetworkError(n) == [attempt |-> n, note |-> "none"]

\* A catch block that wraps the error before throwing it.
RethrownWrapped(error) == [error EXCEPT !.note = "retries exhausted"]

\* What the catch block throws once the retries are exhausted: the caught
\* error itself.
Rethrown(error) == error

\* A backoff that grows linearly.
BackoffDelayLinear(count) == retryDelay * (count + 1)

\* The backoff before the recursive call: retryDelay * Math.pow(2, retryCount).
BackoffDelay(count) == retryDelay * Pow2(count)

\* A retry test that is off by one.
MayRetryOnceMore(count) == count <= maxRetries

\* The retry test of the catch block.
MayRetry(count) == count < maxRetries

\* fetchWithRetry(url, options, retryCount): axios.get is issued.
IssueRequest(f, count) ==
    [f EXCEPT !.pc = "inflight", !.retryCount = count, !.requests = @ + 1]

\* fetchWithRetry(url): the call begins and issues its first request.
FetchBegin(c) ==
    /\ fetch[c].pc = "idle"
    /\ fetch' = [fetch EXCEPT ![c] = IssueRequest(IdleFetch, 0)]

\* axios.get resolves: the response is returned to the caller.
FetchResolve(c) ==
    /\ fetch[c].pc = "inflight"
    /\ fetch' = [fetch EXCEPT ![c].pc = "returned",
                              ![c].response = <<[call |-> c, attempt |-> fetch[c].requests]>>]

\* axios.get rejects: the catch block retries after a backoff or rethrows.
FetchCatch(c) ==
    /\ fetch[c].pc = "inflight"
    /\ LET f == fetch[c]
           error == NetworkError(f.requests)
       IN  fetch' = [fetch EXCEPT ![c] =
               IF MayRetry(f.retryCount)
               THEN [f EXCEPT !.pc = "backoff",
                              !.caught = Append(@, error),
                              !.delays = Append(@, BackoffDelay(f.retryCount))]
               ELSE [f EXCEPT !.pc = "thrown",
                              !.caught = Append(@, error),
                              !.thrown = <<Rethrown(error)>>]]

\* The backoff timer fires: fetchWithRetry(url, options, retryCount + 1).
FetchRetry(c) ==
    /\ fetch[c].pc = "backoff"
    /\ fetch' = [fetch EXCEPT ![c] = IssueRequest(fetch[c], fetch[c].retryCount + 1)]

(* ----------------------------- processBatch ----------------------------- *)

\* processBatch has not been called.
BatchIdle ==
    /\ bpc = "idle"
    /\ items = << >>
    /\ concurrency = 0
    /\ i = 0
    /\ op = [k \in 1..MaxItems |-> Unstarted]
    /\ invoked = [k \in 1..MaxItems |-> 0]
    /\ results = << >>
    /\ errors = << >>
    /\ pacings = 0
    /\ settled = << >>

\* A slice that takes one item too many.
SliceOneMore(from, c, n) == {k \in 1..n : from < k /\ k <= from + c + 1}

\* items.slice(from, from + c): the (1-based) indices of the window's items.
Slice(from, c, n) == {k \in 1..n : from < k /\ k <= from + c}

\* The window of the current loop iteration.
Window == Slice(i, concurrency, Len(items))

RECURSIVE NonNull(_)
\* batchResults.filter(r => r !== null)
NonNull(s) ==
    IF s = << >> THEN << >>
    ELSE IF Head(s).kind = "null" THEN NonNull(Tail(s))
         ELSE <<Head(s)>> \o NonNull(Tail(s))

\* The values of the promises of a window in the order in which they
\* settled.
InSettledOrder(w, promises) ==
    LET s == SelectSeq(settled, LAMBDA k : k \in w)
    IN  [n \in 1..Len(s) |-> promises[s[n]].value]

RECURSIVE InOrder(_, _)
\* The values of the promises of a window, in the order of its items.
InOrder(w, promises) ==
    IF w = {} THEN << >>
    ELSE LET k == CHOOSE x \in w : \A y \in w : x <= y
         IN  <<promises[k].value>> \o InOrder(w \ {k}, promises)

\* Promise.race in place of Promise.all: one fulfilled promise is enough.
AnyFulfilled(w) == \E k \in w : op[k].state = "fulfilled"

\* Promise.all(batchPromises) resolves: every promise of the window is fulfilled.
AllFulfilled(w) == \A k \in w : op[k].state = "fulfilled"

\* Promise.all(batchPromises) rejects: a promise of the window is rejected.
SomeRejected(w) == \E k \in w : op[k].state = "rejected"

\* A test that lets the pacing delay follow every window.
MoreItems == i < Len(items)

\* The test before the pacing delay: i + concurrency < items.length.
MoreWindows == i + concurrency < Len(items)

\* processBatch(items, processFn, concurrency) is called.
BatchCall(its, c) ==
    /\ bpc = "idle"
    /\ bpc' = "loop"
    /\ items' = its
    /\ concurrency' = c
    /\ i' = 0
    /\ results' = << >>
    /\ errors' = << >>
    /\ UNCHANGED <<op, invoked, pacings>>

\* The loop test holds: batch.map(...) calls processFn for every item of the
\* window, then processBatch awaits Promise.all.
BatchStartWindow ==
    /\ bpc = "loop"
    /\ i < Len(items)
    /\ op' = [k \in 1..MaxItems |->
                IF k \in Window THEN [state |-> "pending", value |-> Unstarted.value]
                ELSE op[k]]
    /\ invoked' = [k \in 1..MaxItems |-> IF k \in Window THEN invoked[k] + 1 ELSE invoked[k]]
    /\ bpc' = "await"
    /\ UNCHANGED <<items, concurrency, i, results, errors, pacings>>

\* The operation of item k resolves with value v: the item promise is
\* fulfilled with it.
OpResolve(k, v) ==
    /\ op[k].state = "pending"
    /\ op' = [op EXCEPT ![k] = [state |-> "fulfilled", value |-> v]]
    /\ UNCHANGED <<bpc, items, concurrency, i, invoked, results, errors, pacings>>

\* The operation of item k throws an error that has a message: the catch
\* block records {item, error} and the item promise is fulfilled with null.
OpThrow(k) ==
    /\ op[k].state = "pending"
    /\ errors' = Append(errors, [item |-> k, error |-> "message"])
    /\ op' = [op EXCEPT ![k] = [state |-> "fulfilled", value |-> JsNull]]
    /\ UNCHANGED <<bpc, items, concurrency, i, invoked, results, pacings>>

\* The operation of item k throws null or undefined: reading error.message in
\* the catch block throws a TypeError, and the item promise is rejected.
OpThrowNullish(k) ==
    /\ op[k].state = "pending"
    /\ op' = [op EXCEPT ![k] = [state |-> "rejected", value |-> JsNull]]
    /\ UNCHANGED <<bpc, items, concurrency, i, invoked, results, errors, pacings>>

\* Promise.all resolves: the non-null values are pushed; then the pacing
\* delay starts, or the loop goes on to its test.
BatchWindowDone ==
    /\ bpc = "await"
    /\ AllFulfilled(Window)
    /\ results' = results \o NonNull(InOrder(Window, op))
    /\ IF MoreWindows
       THEN bpc' = "pacing" /\ i' = i
       ELSE bpc' = "loop" /\ i' = i + concurrency
    /\ UNCHANGED <<items, concurrency, op, invoked, errors, pacings>>

\* Promise.all rejects: processBatch rejects; operations still pending go on.
BatchReject ==
    /\ bpc = "await"
    /\ SomeRejected(Window)
    /\ bpc' = "rejected"
    /\ UNCHANGED <<items, concurrency, i, op, invoked, results, errors, pacings>>

\* The pacing timer fires: the loop goes on with i += concurrency. (A loop
\* that never ends, concurrency 0, keeps pacing: the count stops at MaxItems,
\* which no call with concurrency >= 1 reaches.)
BatchPacingDone ==
    /\ bpc = "pacing"
    /\ pacings' = IF pacings < MaxItems THEN pacings + 1 ELSE pacings
    /\ i' = i + concurrency
    /\ bpc' = "loop"
    /\ UNCHANGED <<items, concurrency, op, invoked, results, errors>>

\* The loop test fails: return { results, errors }.
BatchReturn ==
    /\ bpc = "loop"
    /\ ~(i < Len(items))
    /\ bpc' = "returned"
    /\ UNCHANGED <<items, concurrency, i, op, invoked, results, errors, pacings>>

(* ----------------------------- runFullScrape ---------------------------- *)

\* The fields of the record scrapeCity returns when the page was extracted.
DetailFields ==
    {"name", "url", "region", "year", "day", "season", "citizens", "stats",
     "jobLevels", "resources", "buildings", "sanctionedBy", "scrapedAt"}

\* The record scrapeCity returns for the city of item k.
DetailRecord(k) == [kind |-> "detail", item |-> k, fields |-> DetailFields]

\* A catch block that keeps what was extracted before the failure.
FailedRecordPartial(k) ==
    [kind |-> "failed", item |-> k, fields |-> {"name", "url", "stats", "error", "scrapedAt"}]

\* The record the catch block of scrapeCity returns for the city of item k.
FailedRecord(k) ==
    [kind |-> "failed", item |-> k, fields |-> {"name", "url", "error", "scrapedAt"}]

\* A push that writes back a copy of the array taken before the other
\* operations of the window pushed: their entries are lost.
PushErrorLost(type, k) == <<[type |-> type, item |-> k]>>

\* this.errors.push({ type, ... }) of the catch blocks of the three scrapers.
PushError(type, k) == Append(thisErrors, [type |-> type, item |-> k])

\* validateCityDetails for the page of item k: the page has its sections and
\* no warning is queued, or its stats are empty and one warning is queued.
DetailWarnings(k) ==
    {<< >>, <<[type |-> "IncompleteCityDetails", about |-> "stats", subject |-> k]>>}

\* addWarning: this.warnings.push(warning) for each warning of ws.
PushWarnings(ws) == warnings \o ws

\* Sequences over S of length at most n.
SeqsUpTo(S, n) == UNION {[1..m -> S] : m \in 0..n}

\* The names of the entries scrapeCityList accepts, in the order of the page:
\* up to MaxCities cities listed once each, or city 1 listed twice (nothing
\* in the entry loop removes a repeated name).
CityListings ==
    {[k \in 1..n |-> k] : n \in 0..MaxCities} \cup {<<1, 1>>}

\* The war lists an index document may hold: none, or one war of city 1 on a
\* city that the listing never holds.
WarLists == {<< >>, <<[attacker |-> 1, defender |-> 0]>>}

\* The names of the listed cities: new Set(cityData.cities.map(c => c.name)).
ActiveCities(cities) == {cities[k] : k \in 1..Len(cities)}

\* An enrichment that takes one active side for both.
EnrichEither(ws, cities) ==
    [k \in 1..Len(ws) |->
        [attackerActive |-> ws[k].attacker \in ActiveCities(cities),
         defenderActive |-> ws[k].defender \in ActiveCities(cities),
         bothActive |-> ws[k].attacker \in ActiveCities(cities)
                        \/ ws[k].defender \in ActiveCities(cities)] @@ ws[k]]

\* wars.map(war => ({...war, attackerActive, defenderActive, bothActive})):
\* a new record with the fields of the war and the three flags.
Enrich(ws, cities) ==
    [k \in 1..Len(ws) |->
        [attackerActive |-> ws[k].attacker \in ActiveCities(cities),
         defenderActive |-> ws[k].defender \in ActiveCities(cities),
         bothActive |-> ws[k].attacker \in ActiveCities(cities)
                        /\ ws[k].defender \in ActiveCities(cities)] @@ ws[k]]

\* A write that appends to what the file held.
WrittenAppended(name) ==
    [files EXCEPT ![name] = [run |-> IF @.run = "previous" THEN "merged" ELSE @.run,
                             writes |-> @.writes + 1]]

\* fs.writeFile(filepath, JSON.stringify(data)) succeeded: the file holds the
\* data of this run only.
Written(name) == [files EXCEPT ![name] = [run |-> "current", writes |-> @.writes + 1]]

\* A run that issues the wars fetch together with the city-list fetch.
RunBeginBoth ==
    /\ rpc = "idle"
    /\ thisErrors' = << >>
    /\ fetch' = [fetch EXCEPT ![ListCall] = IssueRequest(IdleFetch, 0),
                              ![WarsCall] = IssueRequest(IdleFetch, 0)]
    /\ rpc' = "scrapeCityList"
    /\ UNCHANGED <<historyVars, mainVars, extractVars, configVars, batchVars, cityData, wars, warsWithValidation, files,
                   metadata, dbLog, cause>>

\* runFullScrape(): the logs are reset and scrapeCityList issues its fetch.
RunBegin ==
    /\ rpc = "idle"
    /\ thisErrors' = << >>
    /\ warnings' = << >>
    /\ FetchBegin(ListCall)
    /\ rpc' = "scrapeCityList"
    /\ UNCHANGED <<historyVars, mainVars, input, output, configVars, batchVars, cityData, wars, warsWithValidation, files,
                   metadata, dbLog, cause>>

\* A backoff timer of one of the run's fetches fires.
RunFetchRetry ==
    /\ \E c \in Calls \ {DirectCall} : FetchRetry(c)
    /\ UNCHANGED <<historyVars, mainVars, extractVars, configVars, batchVars, runVars>>

\* scrapeCityList: the index document arrives and n cities are extracted and
\* accepted; runFullScrape starts writing cities.json.
CityListScraped ==
    /\ rpc = "scrapeCityList"
    /\ FetchResolve(ListCall)
    /\ \E cs \in CityListings :
           cityData' = <<[cities |-> cs,
                          response |-> fetch'[ListCall].response[1]]>>
    /\ rpc' = "saveCities"
    /\ UNCHANGED <<historyVars, mainVars, extractVars, configVars, batchVars, thisErrors, wars, warsWithValidation, files,
                   metadata, dbLog, cause>>

\* scrapeCityList: the extraction throws; the catch block logs and rethrows,
\* and runFullScrape rethrows.
CityListExtractThrows ==
    /\ rpc = "scrapeCityList"
    /\ FetchResolve(ListCall)
    /\ thisErrors' = PushError("cityList", 0)
    /\ rpc' = "rejected"
    /\ cause' = "cityList"
    /\ UNCHANGED <<historyVars, mainVars, extractVars, configVars, batchVars, cityData, wars, warsWithValidation, files,
                   metadata, dbLog>>

\* scrapeCityList: a request fails; once fetchWithRetry throws, the catch
\* block logs and rethrows, and runFullScrape rethrows.
CityListFetchFails ==
    /\ rpc = "scrapeCityList"
    /\ FetchCatch(ListCall)
    /\ IF fetch'[ListCall].pc = "thrown"
       THEN /\ thisErrors' = PushError("cityList", 0)
            /\ rpc' = "rejected"
            /\ cause' = "cityList"
       ELSE UNCHANGED <<thisErrors, rpc, cause>>
    /\ UNCHANGED <<historyVars, mainVars, extractVars, configVars, batchVars, cityData, wars, warsWithValidation, files,
                   metadata, dbLog>>

\* saveToFile: fs.writeFile fails; saveToFile logs and rethrows, and
\* runFullScrape rethrows.
SaveToFileFails ==
    /\ rpc \in {"saveCities", "saveWars", "saveDetails"}
    /\ rpc' = "rejected"
    /\ cause' = "saveToFile"
    /\ UNCHANGED <<historyVars, mainVars, extractVars, configVars, batchVars, fetch, thisErrors, cityData, wars,
                   warsWithValidation, files, metadata, dbLog>>

\* A run that goes on to the wars before cities.json is written.
CitiesSavedLater ==
    /\ rpc = "saveCities"
    /\ FetchBegin(WarsCall)
    /\ rpc' = "scrapeWars"
    /\ UNCHANGED <<historyVars, mainVars, extractVars, configVars, batchVars, thisErrors, cityData, wars, warsWithValidation,
                   files, metadata, dbLog, cause>>

\* cities.json is written; scrapeWars issues its fetch of the index document.
CitiesSaved ==
    /\ rpc = "saveCities"
    /\ files' = Written("cities.json")
    /\ FetchBegin(WarsCall)
    /\ rpc' = "scrapeWars"
    /\ UNCHANGED <<historyVars, mainVars, extractVars, configVars, batchVars, thisErrors, cityData, wars, warsWithValidation,
                   metadata, dbLog, cause>>

\* scrapeWars: the index document arrives and the wars are extracted; they
\* are enriched and runFullScrape starts writing wars.json.
WarsScraped ==
    /\ rpc = "scrapeWars"
    /\ FetchResolve(WarsCall)
    /\ \E ws \in WarLists :
           /\ wars' = <<[wars |-> ws, response |-> fetch'[WarsCall].response[1]]>>
           /\ warsWithValidation' = <<Enrich(ws, cityData[1].cities)>>
    /\ rpc' = "saveWars"
    /\ UNCHANGED <<historyVars, mainVars, extractVars, configVars, batchVars, thisErrors, cityData, files, metadata, dbLog, cause>>

\* scrapeWars: the extraction throws; logged and rethrown.
WarsExtractThrows ==
    /\ rpc = "scrapeWars"
    /\ FetchResolve(WarsCall)
    /\ thisErrors' = PushError("wars", 0)
    /\ rpc' = "rejected"
    /\ cause' = "wars"
    /\ UNCHANGED <<historyVars, mainVars, extractVars, configVars, batchVars, cityData, wars, warsWithValidation, files,
                   metadata, dbLog>>

\* scrapeWars: a request fails; once fetchWithRetry throws, logged and rethrown.
WarsFetchFails ==
    /\ rpc = "scrapeWars"
    /\ FetchCatch(WarsCall)
    /\ IF fetch'[WarsCall].pc = "thrown"
       THEN /\ thisErrors' = PushError("wars", 0)
            /\ rpc' = "rejected"
            /\ cause' = "wars"
       ELSE UNCHANGED <<thisErrors, rpc, cause>>
    /\ UNCHANGED <<historyVars, mainVars, extractVars, configVars, batchVars, cityData, wars, warsWithValidation, files,
                   metadata, dbLog>>

\* wars.json is written; processBatch is called with the listed cities and
\* this.concurrency.
WarsSaved ==
    /\ rpc = "saveWars"
    /\ files' = Written("wars.json")
    /\ BatchCall(cityData[1].cities, thisConcurrency)
    /\ rpc' = "processBatch"
    /\ UNCHANGED <<historyVars, mainVars, extractVars, configVars, fetch, thisErrors, cityData, wars, warsWithValidation,
                   metadata, dbLog, cause>>

\* processBatch starts a window: scrapeCity is called for each of its cities
\* and issues its fetch.
RunStartWindow ==
    /\ rpc = "processBatch"
    /\ BatchStartWindow
    /\ fetch' = [c \in Calls |->
                    IF \E k \in Window : c = CityCall(k)
                    THEN IssueRequest(IdleFetch, 0) ELSE fetch[c]]
    /\ UNCHANGED <<historyVars, mainVars, extractVars, configVars, runVars>>

\* scrapeCity: the city page arrives and is extracted; the record is returned.
CityScraped ==
    /\ rpc = "processBatch"
    /\ \E k \in 1..MaxItems :
           /\ FetchResolve(CityCall(k))
           /\ OpResolve(k, DetailRecord(k))
    /\ UNCHANGED <<historyVars, mainVars, extractVars, configVars, runVars>>

\* scrapeCity: the city page arrives and is extracted, validateCityDetails
\* queues the warnings of the page, and the record is returned.
CityScrapedValidated ==
    /\ rpc = "processBatch"
    /\ \E k \in 1..MaxItems :
           /\ FetchResolve(CityCall(k))
           /\ \E ws \in DetailWarnings(k) : warnings' = PushWarnings(ws)
           /\ OpResolve(k, DetailRecord(k))
    /\ UNCHANGED <<historyVars, mainVars, input, output, configVars, runVars>>

\* scrapeCity: the extraction throws; the catch block logs the error and
\* returns the failed record.
CityExtractThrows ==
    /\ rpc = "processBatch"
    /\ \E k \in 1..MaxItems :
           /\ FetchResolve(CityCall(k))
           /\ thisErrors' = PushError("city", k)
           /\ OpResolve(k, FailedRecord(k))
    /\ UNCHANGED <<historyVars, mainVars, extractVars, configVars, rpc, cityData, wars, warsWithValidation, files, metadata,
                   dbLog, cause>>

\* scrapeCity: a request fails; once fetchWithRetry throws, the catch block
\* logs the error and returns the failed record.
CityFetchFails ==
    /\ rpc = "processBatch"
    /\ \E k \in 1..MaxItems :
           /\ FetchCatch(CityCall(k))
           /\ IF fetch'[CityCall(k)].pc = "thrown"
              THEN /\ thisErrors' = PushError("city", k)
                   /\ OpResolve(k, FailedRecord(k))
              ELSE UNCHANGED <<thisErrors, batchVars>>
    /\ UNCHANGED <<historyVars, mainVars, extractVars, configVars, rpc, cityData, wars, warsWithValidation, files, metadata,
                   dbLog, cause>>

\* processBatch: Promise.all of the window resolves.
RunWindowDone ==
    /\ rpc = "processBatch"
    /\ BatchWindowDone
    /\ UNCHANGED <<historyVars, mainVars, extractVars, configVars, fetch, runVars>>

\* processBatch: the pacing timer fires.
RunPacingDone ==
    /\ rpc = "processBatch"
    /\ BatchPacingDone
    /\ UNCHANGED <<historyVars, mainVars, extractVars, configVars, fetch, runVars>>

\* processBatch returns; the metadata is built and runFullScrape starts
\* writing city_details.json.
DetailsScraped ==
    /\ rpc = "processBatch"
    /\ BatchReturn
    /\ metadata' = <<[totalCities |-> Len(cityData[1].cities),
                      successfulScrapes |-> Len(results),
                      failedScrapes |-> Len(errors)]>>
    /\ rpc' = "saveDetails"
    /\ UNCHANGED <<historyVars, mainVars, extractVars, configVars, fetch, thisErrors, cityData, wars, warsWithValidation,
                   files, dbLog, cause>>

\* A database call as it is issued: initialize() and saveScrapeRun(metadata)
\* take no run id.
DbIssue(call, id) == [call |-> call, runId |-> id, status |-> "pending"]

\* A run that hands every save call a run id of its own making.
RunIdArgStale(log) == <<0>>

\* The runId constant of runFullScrape: what saveScrapeRun returned.
RunIdArg(log) == log[2].runId

\* The run id the n-th database call is given.
DbArg(n, log) == IF n <= 2 THEN << >> ELSE RunIdArg(log)

\* city_details.json is written; with a database its first call is made,
\* without one runFullScrape returns the result bundle.
DetailsSaved ==
    /\ rpc = "saveDetails"
    /\ files' = Written("city_details.json")
    /\ IF database
       THEN rpc' = "database" /\ dbLog' = <<DbIssue(DbCalls[1], << >>)>>
       ELSE rpc' = "resolved" /\ dbLog' = dbLog
    /\ UNCHANGED <<historyVars, mainVars, extractVars, configVars, batchVars, fetch, thisErrors, cityData, wars,
                   warsWithValidation, metadata, cause>>

\* The awaited database call has completed; saveScrapeRun returns the row id
\* the database gave the run.
DbSettled(log, id) ==
    [log EXCEPT ![Len(log)] =
        [@ EXCEPT !.status = "done",
                  !.runId = IF Len(log) = 2 THEN <<id>> ELSE @]]

\* The awaited database call completes: the next call is made, or, after the
\* last one, runFullScrape returns the result bundle.
DbCallDone ==
    /\ rpc = "database"
    /\ \E id \in 1..MaxRunId :
           LET log == DbSettled(dbLog, id) IN
           IF Len(dbLog) < Len(DbCalls)
           THEN /\ rpc' = rpc
                /\ dbLog' = Append(log, DbIssue(DbCalls[Len(log) + 1], DbArg(Len(log) + 1, log)))
           ELSE /\ rpc' = "resolved"
                /\ dbLog' = log
    /\ UNCHANGED <<historyVars, mainVars, extractVars, configVars, batchVars, fetch, thisErrors, cityData, wars,
                   warsWithValidation, files, metadata, cause>>

\* The awaited database call has failed.
DbFailed(log) == [log EXCEPT ![Len(log)].status = "failed"]

\* A catch block of the database calls that rethrows.
DbCallFailsRethrows ==
    /\ rpc = "database"
    /\ dbLog' = DbFailed(dbLog)
    /\ thisErrors' = PushError("database", 0)
    /\ rpc' = "rejected"
    /\ cause' = "database"
    /\ UNCHANGED <<historyVars, mainVars, extractVars, configVars, batchVars, fetch, cityData, wars, warsWithValidation,
                   files, metadata>>

\* A catch block of the database calls that logs nothing.
DbCallFailsSilent ==
    /\ rpc = "database"
    /\ dbLog' = DbFailed(dbLog)
    /\ rpc' = "resolved"
    /\ UNCHANGED <<historyVars, mainVars, extractVars, configVars, batchVars, fetch, thisErrors, cityData, wars,
                   warsWithValidation, files, metadata, cause>>

\* A catch block around each database call of its own: the failure is logged
\* and the next call is made.
DbCallFailsGoesOn ==
    /\ rpc = "database"
    /\ thisErrors' = PushError("database", 0)
    /\ LET log == DbFailed(dbLog) IN
       IF Len(dbLog) < Len(DbCalls)
       THEN /\ rpc' = rpc
            /\ dbLog' = Append(log, DbIssue(DbCalls[Len(log) + 1], << >>))
       ELSE /\ rpc' = "resolved"
            /\ dbLog' = log
    /\ UNCHANGED <<historyVars, mainVars, extractVars, configVars, batchVars, fetch, cityData, wars, warsWithValidation,
                   files, metadata, cause>>

\* The awaited database call fails: the catch block logs it in this.errors and
\* runFullScrape returns the result bundle.
DbCallFails ==
    /\ rpc = "database"
    /\ dbLog' = DbFailed(dbLog)
    /\ thisErrors' = PushError("database", 0)
    /\ rpc' = "resolved"
    /\ UNCHANGED <<historyVars, mainVars, extractVars, configVars, batchVars, fetch, cityData, wars, warsWithValidation,
                   files, metadata, cause>>

(* --------------------- specification: the transport --------------------- *)

InitFetch ==
    /\ \E m \in RetryOptions, d \in DelayOptions : Constructor(m, d, NotGiven, NotGiven)
    /\ fetch = [c \in Calls |-> IdleFetch]
    /\ BatchIdle
    /\ RunIdle
    /\ ExtractIdle
    /\ MainIdle

CallFetch == FetchBegin(DirectCall) /\ UNCHANGED <<historyVars, mainVars, extractVars, configVars, batchVars, runVars>>
ResolveFetch == FetchResolve(DirectCall) /\ UNCHANGED <<historyVars, mainVars, extractVars, configVars, batchVars, runVars>>
CatchFetch == FetchCatch(DirectCall) /\ UNCHANGED <<historyVars, mainVars, extractVars, configVars, batchVars, runVars>>
RetryFetch == FetchRetry(DirectCall) /\ UNCHANGED <<historyVars, mainVars, extractVars, configVars, batchVars, runVars>>

NextFetch == CallFetch \/ ResolveFetch \/ CatchFetch \/ RetryFetch

SpecFetch == InitFetch /\ [][NextFetch]_vars

(* ------------------- specification: the batch scheduler ------------------ *)

\* The value an operation resolves to for item k when it is not null.
ValueOf(k) == [kind |-> "value", item |-> k, fields |-> {}]

InitBatch ==
    /\ Constructor(NotGiven, NotGiven, NotGiven, NotGiven)
    /\ fetch = [c \in Calls |-> IdleFetch]
    /\ BatchIdle
    /\ RunIdle
    /\ ExtractIdle
    /\ MainIdle

CallBatch ==
    /\ \E n \in 0..MaxItems, c \in 0..MaxConc : BatchCall([k \in 1..n |-> k], c)
    /\ UNCHANGED <<historyVars, mainVars, extractVars, configVars, fetch, runVars>>
StartWindow == BatchStartWindow /\ UNCHANGED <<historyVars, mainVars, extractVars, configVars, fetch, runVars>>
ResolveValue ==
    /\ \E k \in 1..MaxItems : OpResolve(k, ValueOf(k)) /\ settled' = Append(settled, k)
    /\ UNCHANGED <<mainVars, extractVars, configVars, fetch, runVars>>
ResolveNull ==
    /\ \E k \in 1..MaxItems : OpResolve(k, JsNull) /\ settled' = Append(settled, k)
    /\ UNCHANGED <<mainVars, extractVars, configVars, fetch, runVars>>
ThrowError ==
    /\ \E k \in 1..MaxItems : OpThrow(k) /\ settled' = Append(settled, k)
    /\ UNCHANGED <<mainVars, extractVars, configVars, fetch, runVars>>
ThrowNullish ==
    /\ \E k \in 1..MaxItems : OpThrowNullish(k) /\ settled' = Append(settled, k)
    /\ UNCHANGED <<mainVars, extractVars, configVars, fetch, runVars>>
WindowDone == BatchWindowDone /\ UNCHANGED <<historyVars, mainVars, extractVars, configVars, fetch, runVars>>
WindowRejected == BatchReject /\ UNCHANGED <<historyVars, mainVars, extractVars, configVars, fetch, runVars>>
PacingDone == BatchPacingDone /\ UNCHANGED <<historyVars, mainVars, extractVars, configVars, fetch, runVars>>
Return == BatchReturn /\ UNCHANGED <<historyVars, mainVars, extractVars, configVars, fetch, runVars>>

NextBatch ==
    \/ CallBatch
    \/ StartWindow
    \/ ResolveValue
    \/ ResolveNull
    \/ ThrowError
    \/ ThrowNullish
    \/ WindowDone
    \/ WindowRejected
    \/ PacingDone
    \/ Return

SpecBatch == InitBatch /\ [][NextBatch]_vars

\* The operation of item k settles, in one of the four ways.
Settle(k) ==
    /\ \/ OpResolve(k, ValueOf(k))
       \/ OpResolve(k, JsNull)
       \/ OpThrow(k)
       \/ OpThrowNullish(k)
    /\ settled' = Append(settled, k)
    /\ UNCHANGED <<mainVars, extractVars, configVars, fetch, runVars>>

\* The event loop runs every continuation that is ready and every timer
\* fires; every started operation settles.
BatchFairness ==
    /\ WF_vars(StartWindow)
    /\ WF_vars(WindowDone)
    /\ WF_vars(WindowRejected)
    /\ WF_vars(PacingDone)
    /\ WF_vars(Return)
    /\ \A k \in 1..MaxItems : WF_vars(Settle(k))

SpecBatchFair == SpecBatch /\ BatchFairness

\* An entry point whose catch handler exits with status 0.
MainCatchExitsZero ==
    /\ rpc = "rejected"
    /\ exit = << >>
    /\ stderr' = Append(stderr, cause)
    /\ exit' = <<0>>
    /\ UNCHANGED <<wrapper, historyVars, extractVars, configVars, fetch, batchVars, runVars>>

\* The entry point: runFullScrape() resolved; .then logs and calls
\* process.exit(0).
MainThen ==
    /\ rpc = "resolved"
    /\ exit = << >>
    /\ exit' = <<0>>
    /\ UNCHANGED <<stderr, wrapper, historyVars, extractVars, configVars, fetch, batchVars, runVars>>

\* The entry point: runFullScrape() rejected; .catch logs the error with
\* console.error and calls process.exit(1).
MainCatch ==
    /\ rpc = "rejected"
    /\ exit = << >>
    /\ stderr' = Append(stderr, cause)
    /\ exit' = <<1>>
    /\ UNCHANGED <<wrapper, historyVars, extractVars, configVars, fetch, batchVars, runVars>>

\* The exit statuses of tee: 0, or 1 when it cannot write the log file.
TeeStatuses == {0, 1}

\* run-scraper.sh: $? after `node index.js 2>&1 | tee -a "$LOG_FILE"`. Without
\* pipefail the status of a pipeline is the status of its last command.
PipelineStatus(node, tee) == tee

\* run-scraper.sh: the line the if statement logs. In the else branch $? is
\* expanded after the test command [ $? -eq 0 ] has failed with status 1.
CompletionLine(status) ==
    IF status = 0 THEN [line |-> "completed successfully", code |-> << >>]
    ELSE [line |-> "failed with exit code", code |-> <<1>>]

\* run-scraper.sh: node has exited, tee exits, and the if statement logs
\* the completion line.
WrapperLogsCompletion ==
    /\ exit # << >>
    /\ wrapper = << >>
    /\ \E tee \in TeeStatuses :
           wrapper' = <<CompletionLine(PipelineStatus(exit[1], tee))>>
    /\ UNCHANGED <<exit, stderr, historyVars, extractVars, configVars, fetch, batchVars, runVars>>

(* ---------------------- specification: a full run ----------------------- *)

RunRetryOptions == {<<n>> : n \in 1..MaxRunRetries}
RunConcOptions == {NotGiven} \cup {<<n>> : n \in 1..MaxRunConc}
DatabaseOptions == {NotGiven, <<FALSE>>}

Init ==
    /\ \E m \in RunRetryOptions, c \in RunConcOptions, e \in DatabaseOptions :
           Constructor(m, NotGiven, c, e)
    /\ fetch = [c \in Calls |-> IdleFetch]
    /\ BatchIdle
    /\ RunIdle
    /\ ExtractIdle
    /\ MainIdle

Next ==
    \/ RunBegin
    \/ RunFetchRetry
    \/ CityListScraped
    \/ CityListExtractThrows
    \/ CityListFetchFails
    \/ SaveToFileFails
    \/ CitiesSaved
    \/ WarsScraped
    \/ WarsExtractThrows
    \/ WarsFetchFails
    \/ WarsSaved
    \/ RunStartWindow
    \/ CityScraped
    \/ CityExtractThrows
    \/ CityFetchFails
    \/ RunWindowDone
    \/ RunPacingDone
    \/ DetailsScraped
    \/ DetailsSaved
    \/ DbCallDone
    \/ DbCallFails
    \/ MainThen
    \/ MainCatch
    \/ WrapperLogsCompletion

Spec == Init /\ [][Next]_vars

(* ------------- specification: a run and its warnings and errors ---------- *)

\* A scraper without the database: new FragileCityScraper({ maxRetries: m,
\* concurrency: c, enableDatabase: false }).
InitLogs ==
    /\ \E m \in RunRetryOptions, c \in RunConcOptions :
           Constructor(m, NotGiven, c, <<FALSE>>)
    /\ fetch = [c \in Calls |-> IdleFetch]
    /\ BatchIdle
    /\ RunIdle
    /\ ExtractIdle
    /\ MainIdle

\* The steps of runFullScrape, with city pages that may queue warnings.
NextLogs ==
    \/ RunBegin
    \/ RunFetchRetry
    \/ CityListScraped
    \/ CityListExtractThrows
    \/ CityListFetchFails
    \/ SaveToFileFails
    \/ CitiesSaved
    \/ WarsScraped
    \/ WarsExtractThrows
    \/ WarsFetchFails
    \/ WarsSaved
    \/ RunStartWindow
    \/ CityScrapedValidated
    \/ CityExtractThrows
    \/ CityFetchFails
    \/ RunWindowDone
    \/ RunPacingDone
    \/ DetailsScraped
    \/ DetailsSaved

SpecLogs == InitLogs /\ [][NextLogs]_vars


(* --------------------- texts, numbers and the helpers ------------------- *)

\* A text is a sequence of characters; these are the characters of the texts
\* the helpers are applied to ("x" stands for any character no pattern names).
Chars == {"-", ",", ".", "/", "k", "1", "x"}

DigitChars == <<"0", "1", "2", "3", "4", "5", "6", "7", "8", "9">>

\* \d
Digits == {DigitChars[d] : d \in 1..Len(DigitChars)}

DigitValue(c) == (CHOOSE d \in 1..Len(DigitChars) : DigitChars[d] = c) - 1

\* [\d,]
DigitsComma == Digits \cup {","}

\* [\d,.]
DigitsCommaPeriod == Digits \cup {",", "."}

\* [kMG]
Suffixes == {"k", "M", "G"}

\* The values of a helper: null, NaN, and the finite numbers, written as a
\* sign, a whole part and the digits after the decimal point (exact decimals:
\* the rounding of binary floating point is left out).
Null == [kind |-> "null"]
NaN == [kind |-> "NaN"]

RECURSIVE StripZeros(_)
StripZeros(ds) ==
    IF ds # << >> /\ ds[Len(ds)] = 0 THEN StripZeros(SubSeq(ds, 1, Len(ds) - 1)) ELSE ds

Number(neg, whole, frac) ==
    [kind |-> "number",
     neg |-> neg /\ (whole # 0 \/ StripZeros(frac) # << >>),
     whole |-> whole,
     frac |-> StripZeros(frac)]

\* The end of the longest run of characters of S that starts at p (p - 1 when
\* the character at p is not in S): a greedy [S]*.
RECURSIVE RunEnd(_, _, _)
RunEnd(t, p, S) ==
    IF p <= Len(t) /\ t[p] \in S THEN RunEnd(t, p + 1, S) ELSE p - 1

\* text.replace(/,/g, '')
StripCommas(t) == SelectSeq(t, LAMBDA c : c # ",")

\* text.trim()
RECURSIVE Trim(_)
Trim(t) ==
    IF t # << >> /\ t[1] = " " THEN Trim(Tail(t))
    ELSE IF t # << >> /\ t[Len(t)] = " " THEN Trim(SubSeq(t, 1, Len(t) - 1))
    ELSE t

\* The value of a sequence of digit characters read in base ten.
RECURSIVE DecimalValue(_)
DecimalValue(ds) ==
    IF ds = << >> THEN 0
    ELSE 10 * DecimalValue(SubSeq(ds, 1, Len(ds) - 1)) + DigitValue(ds[Len(ds)])

\* text.match(/(-?[S]+)/): the leftmost place where an optional "-" and then
\* at least one character of S stand, taken as far as it goes; << >> when
\* there is none, <<[from, to]>> otherwise.
SignedRun(t, S) ==
    LET starts == {p \in 1..Len(t) :
                      \/ t[p] \in S
                      \/ t[p] = "-" /\ p < Len(t) /\ t[p + 1] \in S}
    IN  IF starts = {} THEN << >>
        ELSE LET p == CHOOSE q \in starts : \A r \in starts : q <= r
                 body == IF t[p] \in S THEN p ELSE p + 1
             IN  <<[from |-> p, to |-> RunEnd(t, body, S)]>>

\* parseInt(s): an optional sign, then the digits that follow; NaN when no
\* digit follows.
ParseInt(s) ==
    LET neg == s # << >> /\ s[1] = "-"
        from == IF neg THEN 2 ELSE 1
        to == RunEnd(s, from, Digits)
    IN  IF to < from THEN NaN
        ELSE Number(neg, DecimalValue(SubSeq(s, from, to)), << >>)

\* parseFloat(s): an optional sign, then digits, optionally a point and
\* digits, or a point and at least one digit; NaN when neither is there.
ParseFloat(s) ==
    LET neg == s # << >> /\ s[1] = "-"
        from == IF neg THEN 2 ELSE 1
        to == RunEnd(s, from, Digits)
        point == to < Len(s) /\ s[to + 1] = "."
        fracTo == IF point THEN RunEnd(s, to + 2, Digits) ELSE to
        frac == IF point
                THEN [d \in 1..(fracTo - to - 1) |-> DigitValue(s[to + 1 + d])]
                ELSE << >>
    IN  IF to < from /\ frac = << >> THEN NaN
        ELSE Number(neg, DecimalValue(SubSeq(s, from, to)), frac)

\* num * 10^places
RECURSIVE TimesTenTo(_, _)
TimesTenTo(num, places) ==
    IF num.kind # "number" \/ places = 0 THEN num
    ELSE TimesTenTo(Number(num.neg,
                           10 * num.whole + (IF num.frac = << >> THEN 0 ELSE Head(num.frac)),
                           IF num.frac = << >> THEN << >> ELSE Tail(num.frac)),
                    places - 1)

\* extractNumber(text)
extractNumber(text) ==
    IF text = << >> THEN Null
    ELSE LET match == SignedRun(text, DigitsComma)
         IN  IF match # << >>
             THEN ParseInt(StripCommas(SubSeq(text, match[1].from, match[1].to)))
             ELSE Null

\* parseStatNumber(text)
parseStatNumber(text) ==
    IF text = << >> THEN Null
    ELSE LET t == Trim(text)
             match == SignedRun(t, DigitsCommaPeriod)
         IN  IF match = << >> THEN Null
             ELSE LET num == ParseFloat(StripCommas(SubSeq(t, match[1].from, match[1].to)))
                      suffix == IF match[1].to < Len(t) /\ t[match[1].to + 1] \in Suffixes
                                THEN t[match[1].to + 1] ELSE ""
                  IN  CASE suffix = "k" -> TimesTenTo(num, 3)
                        [] suffix = "M" -> TimesTenTo(num, 6)
                        [] suffix = "G" -> TimesTenTo(num, 9)
                        [] OTHER -> num

\* text.match(/([\d,.]+)\/([\d,.]+[kMG]?)/): the leftmost run of [\d,.] that
\* a "/" and another such run follow; the second group takes a suffix if one
\* is there.
FractionMatch(t) ==
    LET starts == {p \in 1..Len(t) :
                      /\ t[p] \in DigitsCommaPeriod
                      /\ LET e == RunEnd(t, p, DigitsCommaPeriod)
                         IN  /\ e + 2 <= Len(t)
                             /\ t[e + 1] = "/"
                             /\ t[e + 2] \in DigitsCommaPeriod}
    IN  IF starts = {} THEN << >>
        ELSE LET p == CHOOSE q \in starts : \A r \in starts : q <= r
                 e == RunEnd(t, p, DigitsCommaPeriod)
                 e2 == RunEnd(t, e + 2, DigitsCommaPeriod)
                 to == IF e2 < Len(t) /\ t[e2 + 1] \in Suffixes THEN e2 + 1 ELSE e2
             IN  <<[first |-> SubSeq(t, p, e), second |-> SubSeq(t, e + 2, to)]>>

\* extractStatValue(text)
extractStatValue(text) ==
    IF text = << >> THEN Null
    ELSE LET fractionMatch == FractionMatch(text)
             singleMatch == SignedRun(text, DigitsCommaPeriod)
         IN  IF fractionMatch # << >>
             THEN [kind |-> "pair",
                   current |-> parseStatNumber(fractionMatch[1].first),
                   max |-> parseStatNumber(fractionMatch[1].second)]
             ELSE IF singleMatch # << >>
             THEN LET to == IF singleMatch[1].to < Len(text)
                               /\ text[singleMatch[1].to + 1] \in Suffixes
                            THEN singleMatch[1].to + 1 ELSE singleMatch[1].to
                  IN  parseStatNumber(SubSeq(text, singleMatch[1].from, to))
             ELSE Null

(* ----------------------------- the validators --------------------------- *)

\* A string value.
Str(t) == [kind |-> "string", text |-> t]

\* typeof v === 'number'
IsNumberType(v) == v.kind \in {"number", "NaN"}

\* v < 0, for a v of type number (false for NaN)
IsNegative(v) == v.kind = "number" /\ v.neg

\* !v, for a string, a number or null
IsFalsy(v) ==
    \/ v.kind \in {"null", "NaN"}
    \/ v.kind = "string" /\ v.text = << >>
    \/ v.kind = "number" /\ v.whole = 0 /\ v.frac = << >>

\* addWarning(type, message, context): the message is kept by what it is
\* about, the timestamp is left out.
addWarning(ws, type, about, subject) ==
    Append(ws, [type |-> type, about |-> about, subject |-> subject])

\* validateCity: the required fields that are null or undefined.
MissingCityFields(city) ==
    {f \in {"name", "url", "pollution", "citizens"} : city[f].kind = "null"}

\* validateCity(city), called with the warnings ws queued so far: what it
\* returns and the warnings queued after it.
validateCity(city, ws) ==
    IF MissingCityFields(city) # {}
    THEN [ret |-> FALSE,
          warnings |-> addWarning(ws, "InvalidCityData", "missing", city.name)]
    ELSE [ret |-> TRUE,
          warnings |-> IF ~IsNumberType(city.citizens) \/ IsNegative(city.citizens)
                       THEN addWarning(ws, "InvalidCityData", "citizens", city.name)
                       ELSE ws]

\* validateWar: the required fields that are falsy.
MissingWarFields(war) ==
    {f \in {"attacker", "defender", "attackerUrl", "defenderUrl"} : IsFalsy(war[f])}

\* validateWar(war)
validateWar(war, ws) ==
    IF MissingWarFields(war) # {}
    THEN [ret |-> FALSE,
          warnings |-> addWarning(ws, "InvalidWarData", "missing", war.attacker)]
    ELSE [ret |-> TRUE,
          warnings |-> IF ~IsNumberType(war.missiles) \/ IsNegative(war.missiles)
                       THEN addWarning(ws, "InvalidWarData", "missiles", war.attacker)
                       ELSE ws]

\* Object.keys(o).length === 0, or an array of length 0
IsEmpty(o) == DOMAIN o = {}

\* validateCityDetails: the warning of one of the four section checks, if
\* the check queues one.
SectionWarning(details, section) ==
    IF IsEmpty(details[section])
    THEN <<[type |-> "IncompleteCityDetails", about |-> section, subject |-> details.name]>>
    ELSE << >>

\* validateCityDetails: the warning of the check of the citizens, if it
\* queues one.
CitizensWarning(details) ==
    IF /\ details.citizens.kind # "null"
       /\ (~IsNumberType(details.citizens) \/ IsNegative(details.citizens))
    THEN <<[type |-> "InvalidCityDetails", about |-> "citizens", subject |-> details.name]>>
    ELSE << >>

\* validateCityDetails(cityData), called with the warnings ws queued so far.
validateCityDetails(details, ws) ==
    IF IsFalsy(details.name)
    THEN [ret |-> FALSE,
          warnings |-> addWarning(ws, "InvalidCityDetails", "name", details.name)]
    ELSE [ret |-> TRUE,
          warnings |-> ws \o SectionWarning(details, "stats")
                          \o SectionWarning(details, "jobLevels")
                          \o SectionWarning(details, "resources")
                          \o SectionWarning(details, "buildings")
                          \o CitizensWarning(details)]

(* ------------------------- the entries of the pages --------------------- *)

\* The texts of the cells of a page that hold a count.
CellTexts == {<< >>, <<"1">>, <<"-", "1">>, <<",">>, <<"x">>}

\* A cell of a page: << >> when the element is not there, <<its text>> when
\* it is.
Cells == {<< >>} \cup {<<t>> : t \in CellTexts}

\* The trimmed text of a link to a city.
LinkTexts == {<< >>, <<"A">>}

\* this.baseUrl + href, for the link of the city named t
Url(t) == Str(<<"/">> \o t)

\* let v = null; if (span.length) v = this.extractNumber(span.text())
CellNumber(cell) == IF cell = << >> THEN Null ELSE extractNumber(cell[1])

\* scrapeCityList: the record built from one entry of the index page.
ListedCity(entry) ==
    [name |-> Str(entry.name),
     url |-> Url(entry.name),
     pollution |-> CellNumber(entry.pollution),
     citizens |-> CellNumber(entry.citizens)]

\* scrapeCityList, one entry of the page: what validateCity returned (<< >>
\* when the name is empty and it is not called), the cities pushed, and the
\* warnings queued after it.
scrapeCityListEntry(entry, ws) ==
    IF entry.name = << >>
    THEN [fn |-> "scrapeCityList", record |-> ListedCity(entry), validated |-> << >>,
          pushed |-> << >>, warnings |-> ws]
    ELSE LET v == validateCity(ListedCity(entry), ws)
         IN  [fn |-> "scrapeCityList", record |-> ListedCity(entry), validated |-> <<v.ret>>,
              pushed |-> IF v.ret THEN <<ListedCity(entry)>> ELSE << >>,
              warnings |-> v.warnings]

\* scrapeWars: the record built from one entry of the wars section.
ListedWar(entry) ==
    [attacker |-> Str(entry.attacker),
     attackerUrl |-> Url(entry.attacker),
     defender |-> Str(entry.defender),
     defenderUrl |-> Url(entry.defender),
     missiles |-> CellNumber(entry.missiles)]

\* scrapeWars, one entry of the wars section: what validateWar returned, the
\* wars pushed, and the warnings queued after it.
scrapeWarsEntry(entry, ws) ==
    LET v == validateWar(ListedWar(entry), ws)
    IN  [fn |-> "scrapeWars", record |-> ListedWar(entry), validated |-> <<v.ret>>,
         pushed |-> IF v.ret THEN <<ListedWar(entry)>> ELSE << >>,
         warnings |-> v.warnings]

(* ------------------------------ the city page --------------------------- *)

\* The names of the building sections of a city page, as the keys they
\* become (lower case, "_" for white space).
BuildingNames == {"mine", "farm"}

\* A building section: its name and its green count cell.
Sections == [name : BuildingNames, cell : Cells]

Zero == Number(FALSE, 0, << >>)
One == Number(FALSE, 1, << >>)

\* scrapeCity: the buildings object after the sections, in page order.
RECURSIVE BuildingsOf(_)
BuildingsOf(sections) ==
    IF sections = << >> THEN << >>
    ELSE LET before == BuildingsOf(SubSeq(sections, 1, Len(sections) - 1))
             section == sections[Len(sections)]
         IN  IF section.cell # << >>
             THEN LET count == extractNumber(section.cell[1])
                  IN  IF count # Null THEN (section.name :> count) @@ before
                      ELSE before
             ELSE (section.name :> Zero) @@ before

\* scrapeCity: the stats object of a page with one stat cell.
StatsOf(cell) ==
    LET value == extractStatValue(IF cell = << >> THEN << >> ELSE cell[1])
    IN  IF cell # << >> /\ value # Null THEN ("pollution" :> value) ELSE << >>

\* scrapeCity: the record built from the loaded page of the city cityName.
CityDetails(cityName, page) ==
    [name |-> Str(cityName),
     url |-> Url(cityName),
     region |-> IF page.citizens = << >> THEN Null ELSE Str(<<"x">>),
     year |-> IF page.citizens = << >> THEN Null ELSE One,
     day |-> IF page.citizens = << >> THEN Null ELSE One,
     season |-> IF page.citizens = << >> THEN Null ELSE Str(<<"x">>),
     citizens |-> IF page.citizens = << >> THEN Null
                  ELSE ParseInt(StripCommas(page.citizens[1])),
     stats |-> StatsOf(page.stat),
     jobLevels |-> [l \in 1..page.levels |-> [level |-> One]],
     resources |-> IF page.resources = 0 THEN << >>
                   ELSE ("wood" :> parseStatNumber(<<"1">>)),
     buildings |-> BuildingsOf(page.sections),
     sanctionedBy |-> [l \in 1..page.sanctions |-> Str(<<"A">>)],
     scrapedAt |-> Str(<<"x">>)]

\* scrapeCity: cityData, what validateCityDetails(cityData) returns, and the
\* warnings queued after it.
Validated(details, ws) ==
    [details |-> details,
     ret |-> validateCityDetails(details, ws).ret,
     warnings |-> validateCityDetails(details, ws).warnings]

\* A scrapeCity that returns null for a record validateCityDetails rejects.
scrapeCityStrict(cityName, page, ws) ==
    CHOOSE r \in {[value |-> IF v.ret THEN v.details ELSE Null,
                   validated |-> <<v.ret>>, warnings |-> v.warnings] :
                      v \in {Validated(d, ws) : d \in {CityDetails(cityName, page)}}} : TRUE

\* scrapeCity(cityName), from the loaded page on: the record is built,
\* validateCityDetails is called and its result dropped, the record is
\* returned.
scrapeCity(cityName, page, ws) ==
    CHOOSE r \in {[value |-> v.details, validated |-> <<v.ret>>, warnings |-> v.warnings] :
                      v \in {Validated(d, ws) : d \in {CityDetails(cityName, page)}}} : TRUE

(* ----------------- specification: the extraction steps ------------------ *)

\* The city names of the enrichment taken alone.
CityNames == {"A", "B", "C"}

\* The wars scrapeWars may have extracted.
WarRecords == [attacker : CityNames, defender : CityNames, missiles : {5}]

\* The accepted city lists, in the order of the page.
CityLists == SeqsUpTo(CityNames, MaxListed)

InitEnrich ==
    \E cs \in CityLists, ws \in SeqsUpTo(WarRecords, MaxWars) :
        input = [kind |-> "enrich", cities |-> cs, wars |-> ws]

\* The texts the helpers are applied to.
Texts == SeqsUpTo(Chars, MaxLen)

InitText ==
    \E t \in Texts : input = [kind |-> "text", text |-> t]

\* An entry of the index page.
InitEntry ==
    \E n \in LinkTexts, p \in Cells, c \in Cells :
        input = [kind |-> "entry", name |-> n, pollution |-> p, citizens |-> c]

\* The values a field of a record handed to validateCity may hold.
FieldValues == {Null, NaN, Number(FALSE, 1, << >>), Number(TRUE, 1, << >>)}

\* A city record handed to validateCity.
InitCity ==
    \E n \in {Null, Str(<<"A">>)}, u \in {Null, Url(<<"A">>)},
       p \in FieldValues, c \in FieldValues \cup {Str(<<"x">>)} :
        input = [kind |-> "city", name |-> n, url |-> u, pollution |-> p, citizens |-> c]

\* An entry of the wars section.
InitWar ==
    \E a \in LinkTexts, d \in LinkTexts, m \in Cells :
        input = [kind |-> "war", attacker |-> a, defender |-> d, missiles |-> m]

\* The loaded page of a city: the cell under the Citizens header, a stat
\* cell, the numbers of job levels, resources and sanctioning cities, and
\* the building sections.
InitPage ==
    \E n \in LinkTexts, c \in Cells, st \in Cells, l \in 0..1, r \in 0..1, sa \in 0..1,
       bs \in SeqsUpTo(Sections, MaxSections) :
        input = [kind |-> "page", name |-> n, citizens |-> c, stat |-> st, levels |-> l,
                 resources |-> r, sanctions |-> sa, sections |-> bs]

InitExtract ==
    /\ Constructor(NotGiven, NotGiven, NotGiven, NotGiven)
    /\ fetch = [c \in Calls |-> IdleFetch]
    /\ BatchIdle
    /\ RunIdle
    /\ output = << >>
    /\ warnings = << >>
    /\ MainIdle
    /\ \/ InitEnrich
       \/ InitText
       \/ InitEntry
       \/ InitCity
       \/ InitWar
       \/ InitPage

\* runFullScrape: the wars are enriched with the active-city flags.
EnrichWars ==
    /\ input.kind = "enrich"
    /\ output = << >>
    /\ output' = <<[fn |-> "enrich", value |-> Enrich(input.wars, input.cities)]>>
    /\ UNCHANGED <<historyVars, mainVars, input, warnings, configVars, fetch, batchVars, runVars>>

\* this.extractNumber(text)
ExtractNumber ==
    /\ input.kind = "text"
    /\ output = << >>
    /\ output' = <<[fn |-> "extractNumber", value |-> extractNumber(input.text)]>>
    /\ UNCHANGED <<historyVars, mainVars, input, warnings, configVars, fetch, batchVars, runVars>>

\* this.extractStatValue(text)
ExtractStatValue ==
    /\ input.kind = "text"
    /\ output = << >>
    /\ output' = <<[fn |-> "extractStatValue", value |-> extractStatValue(input.text)]>>
    /\ UNCHANGED <<historyVars, mainVars, input, warnings, configVars, fetch, batchVars, runVars>>

\* scrapeCityList: one entry of the index page is extracted and validated,
\* and pushed unless validateCity rejects it.
ScrapeCityListEntry ==
    /\ input.kind = "entry"
    /\ output = << >>
    /\ LET r == scrapeCityListEntry(input, warnings)
       IN  /\ output' = <<[fn |-> r.fn, record |-> r.record, validated |-> r.validated,
                           pushed |-> r.pushed]>>
           /\ warnings' = r.warnings
    /\ UNCHANGED <<historyVars, mainVars, input, configVars, fetch, batchVars, runVars>>

\* this.validateCity(city)
ValidateCity ==
    /\ input.kind = "city"
    /\ output = << >>
    /\ LET city == [f \in {"name", "url", "pollution", "citizens"} |-> input[f]]
           v == validateCity(city, warnings)
       IN  /\ output' = <<[fn |-> "validateCity", record |-> city, validated |-> <<v.ret>>,
                           pushed |-> << >>]>>
           /\ warnings' = v.warnings
    /\ UNCHANGED <<historyVars, mainVars, input, configVars, fetch, batchVars, runVars>>

\* scrapeWars: one entry of the wars section is extracted and validated, and
\* pushed unless validateWar rejects it.
ScrapeWarsEntry ==
    /\ input.kind = "war"
    /\ output = << >>
    /\ LET r == scrapeWarsEntry(input, warnings)
       IN  /\ output' = <<[fn |-> r.fn, record |-> r.record, validated |-> r.validated,
                           pushed |-> r.pushed]>>
           /\ warnings' = r.warnings
    /\ UNCHANGED <<historyVars, mainVars, input, configVars, fetch, batchVars, runVars>>

\* scrapeCity: the loaded page is extracted, validated and returned.
ScrapeCityPage ==
    /\ input.kind = "page"
    /\ output = << >>
    /\ \E r \in {scrapeCity(input.name, input, warnings)} :
           /\ output' = <<[fn |-> "scrapeCity", value |-> r.value, validated |-> r.validated]>>
           /\ warnings' = r.warnings
    /\ UNCHANGED <<historyVars, mainVars, input, configVars, fetch, batchVars, runVars>>

NextExtract ==
    \/ EnrichWars
    \/ ExtractNumber
    \/ ExtractStatValue
    \/ ScrapeCityListEntry
    \/ ValidateCity
    \/ ScrapeWarsEntry
    \/ ScrapeCityPage

SpecExtract == InitExtract /\ [][NextExtract]_vars

(* ---------------------- claims: the batch scheduler ---------------------- *)

\* The operations that have been started and have not settled.
InFlight == {k \in 1..MaxItems : op[k].state = "pending"}

\* The index of the window item k belongs to, for concurrency c >= 1.
WindowOf(k, c) == (k - 1) \div c

\* C1: for every concurrency C >= 1, at every moment at most C operations of
\* processBatch are started and not yet settled.
C1_InFlightAtMostC == concurrency >= 1 => Cardinality(InFlight) <= concurrency

\* C1 witness: a full window of two or more operations is in flight and the
\* input holds more items than one window.
C1_Witness ==
    /\ concurrency >= 2
    /\ Len(items) > concurrency
    /\ Cardinality(InFlight) = concurrency

\* C2 (as claimed): when processBatch returns, results and errors together
\* hold one entry per item, whatever the operations resolve to or throw.
C2_ResultsPlusErrorsIsN ==
    bpc = "returned" => Len(results) + Len(errors) = Len(items)

\* C3: an operation of a later window is started only when every operation of
\* every earlier window has settled and the pacing delays after them have
\* elapsed.
C3_WindowsInSequence ==
    concurrency >= 1 =>
        \A k \in 1..MaxItems :
            op[k].state # "unstarted" =>
                /\ \A j \in 1..MaxItems :
                       WindowOf(j, concurrency) < WindowOf(k, concurrency)
                           => op[j].state = "fulfilled"
                /\ pacings >= WindowOf(k, concurrency)

\* C3 witness: an operation of the second or a later window is in flight.
C3_Witness ==
    /\ concurrency >= 1
    /\ \E k \in InFlight : WindowOf(k, concurrency) >= 1

\* C4 (as claimed): processBatch never rejects because an operation failed, and
\* when it returns every item's operation was invoked exactly once and every
\* failing item has exactly one entry in errors.
C4_FailuresNeverAbort ==
    /\ bpc # "rejected"
    /\ bpc = "returned" =>
           /\ \A k \in 1..Len(items) : invoked[k] = 1
           /\ \A a, b \in 1..Len(errors) : errors[a].item = errors[b].item => a = b

(* ------------------------- claims: the transport ------------------------- *)

\* C5: one call of fetchWithRetry issues at most maxRetries + 1 requests, and
\* once the last of them has settled the call has returned or thrown.
C5_AtMostMaxRetriesPlusOne ==
    \A c \in Calls :
        /\ fetch[c].requests <= maxRetries + 1
        /\ (fetch[c].requests = maxRetries + 1 /\ fetch[c].pc # "inflight")
               => fetch[c].pc \in {"returned", "thrown"}

\* C5 witness: with the default of three retries, a call has thrown after four
\* requests.
C5_Witness ==
    /\ maxRetries = DefaultMaxRetries
    /\ fetch[DirectCall].pc = "thrown"
    /\ fetch[DirectCall].requests = DefaultMaxRetries + 1

\* C6: the delay before the k-th retry is retryDelay * 2^(k-1), k = 1..maxRetries;
\* no delay precedes the initial request; with the defaults the delays are
\* 1000, 2000, 4000 ms.
C6_ExponentialBackoff ==
    \A c \in Calls :
        LET f == fetch[c] IN
        /\ Len(f.delays) <= maxRetries
        /\ \A k \in 1..Len(f.delays) : f.delays[k] = retryDelay * 2^(k - 1)
        /\ f.pc = "inflight" => Len(f.delays) = f.requests - 1
        /\ f.pc = "backoff" => Len(f.delays) = f.requests
        /\ (options.maxRetries = NotGiven /\ options.retryDelay = NotGiven /\ f.pc = "thrown")
               => f.delays = <<1000, 2000, 4000>>

\* C6 witness: a call of a scraper built with the default options has made all
\* of its retries.
C6_Witness ==
    /\ options.maxRetries = NotGiven
    /\ options.retryDelay = NotGiven
    /\ fetch[DirectCall].pc = "thrown"
    /\ Len(fetch[DirectCall].delays) = DefaultMaxRetries

\* C7: when every attempt fails, fetchWithRetry throws the error object of the
\* final attempt as it caught it, and only after maxRetries retries.
C7_LastErrorUnchanged ==
    \A c \in Calls :
        LET f == fetch[c] IN
        /\ f.pc = "thrown" =>
               /\ f.thrown = <<NetworkError(f.requests)>>
               /\ f.thrown = <<f.caught[Len(f.caught)]>>
               /\ f.retryCount = maxRetries
               /\ Len(f.caught) = maxRetries + 1
        /\ f.pc # "thrown" => f.thrown = << >>

\* C7 witness: a call has thrown after two or more failed attempts.
C7_Witness ==
    /\ fetch[DirectCall].pc = "thrown"
    /\ Len(fetch[DirectCall].caught) >= 2

(* ---------------------------- claims: the run ---------------------------- *)

\* The entries of this.errors of the given type for item k.
ErrorEntries(type, k) ==
    {e \in 1..Len(thisErrors) : thisErrors[e].type = type /\ thisErrors[e].item = k}

\* C8: the wars fetch is issued only after the city list was fetched and
\* extracted, a city page is requested only after the wars were fetched and
\* enriched, and the list and the wars come from two separate requests.
C8_PhasesInSequence ==
    /\ fetch[WarsCall].requests > 0 =>
           /\ fetch[ListCall].pc = "returned"
           /\ cityData # << >>
    /\ \A k \in 1..MaxItems :
           fetch[CityCall(k)].requests > 0 =>
               /\ fetch[WarsCall].pc = "returned"
               /\ wars # << >>
               /\ warsWithValidation # << >>
    /\ wars # << >> =>
           /\ cityData[1].response.call = ListCall
           /\ wars[1].response.call = WarsCall
           /\ cityData[1].response # wars[1].response
           /\ fetch[ListCall].requests >= 1
           /\ fetch[WarsCall].requests >= 1

\* C8 witness: city pages are being requested for a run that found a war.
C8_Witness ==
    /\ rpc = "processBatch"
    /\ wars # << >>
    /\ wars[1].wars # << >>
    /\ \E k \in 1..MaxItems : fetch[CityCall(k)].requests > 0

C10_FailedCityDegrades ==
    /\ \A k \in 1..MaxItems :
           fetch[CityCall(k)].pc = "thrown" =>
               /\ op[k].state = "fulfilled"
               /\ op[k].value.kind = "failed"
               /\ op[k].value.fields = {"name", "url", "error", "scrapedAt"}
               /\ Cardinality(ErrorEntries("city", k)) = 1
    /\ bpc # "rejected"
    /\ bpc = "returned" =>
           /\ Len(results) = Len(items)
           /\ \A k \in 1..Len(items) :
                  /\ invoked[k] = 1
                  /\ fetch[CityCall(k)].requests >= 1
                  /\ op[k].state = "fulfilled"

\* C10 witness: processBatch has returned, the first city's fetch threw and a
\* city of a later window was scraped.
C10_Witness ==
    /\ bpc = "returned"
    /\ concurrency = 1
    /\ fetch[CityCall(1)].pc = "thrown"
    /\ \E k \in 2..MaxItems : op[k].value.kind = "detail"

\* The listed cities whose detail scrape ended with a record of the given kind.
CitiesOfKind(kind) == {k \in 1..Len(items) : op[k].value.kind = kind}

\* C11 (as claimed): in the metadata of a completed run successfulScrapes is
\* the number of cities whose detail scrape succeeded and failedScrapes the
\* number of cities whose detail scrape failed.
C11_CountsMatchOutcomes ==
    rpc = "resolved" =>
        /\ metadata[1].successfulScrapes = Cardinality(CitiesOfKind("detail"))
        /\ metadata[1].failedScrapes = Cardinality(CitiesOfKind("failed"))

\* The database calls that failed.
FailedDbCalls == {n \in 1..Len(dbLog) : dbLog[n].status = "failed"}

\* C12: a failed database call is caught: this.errors gets exactly one entry
\* for it, runFullScrape resolves, and the three flat files stay as this run
\* wrote them, each written once.
C12_DbFailureCaught ==
    /\ Cardinality(ErrorEntries("database", 0)) = Cardinality(FailedDbCalls)
    /\ FailedDbCalls # {} =>
           /\ Cardinality(FailedDbCalls) = 1
           /\ rpc = "resolved"
           /\ \A f \in FileNames : files[f] = [run |-> "current", writes |-> 1]

\* C12 witness: saveCities failed in a run that also had a failed city scrape.
C12_Witness ==
    /\ rpc = "resolved"
    /\ Len(dbLog) = 4
    /\ dbLog[4].status = "failed"
    /\ \E k \in 1..MaxItems : ErrorEntries("city", k) # {}

\* C13: no database call starts before the last city scrape has settled; the
\* calls are made one at a time in the order of DbCalls; every save call after
\* saveScrapeRun is given the run id saveScrapeRun returned.
C13_DbCallsInOrder ==
    /\ dbLog # << >> =>
           /\ bpc = "returned"
           /\ \A k \in 1..Len(items) : op[k].state = "fulfilled"
           /\ \A c \in Calls : fetch[c].pc \notin {"inflight", "backoff"}
    /\ Len(dbLog) <= Len(DbCalls)
    /\ \A n \in 1..Len(dbLog) :
           /\ dbLog[n].call = DbCalls[n]
           /\ n < Len(dbLog) => dbLog[n].status = "done"
           /\ n > 2 => dbLog[n].runId = dbLog[2].runId /\ dbLog[2].runId # << >>

\* C13 witness: saveCityDetails has completed with a run id other than the
\* first the database can give.
C13_Witness ==
    /\ Len(dbLog) = Len(DbCalls)
    /\ dbLog[Len(DbCalls)].status = "done"
    /\ dbLog[Len(DbCalls)].runId = <<MaxRunId>>

(* ----------------------- claims: the extraction ------------------------ *)

\* Name n is one of the accepted city names.
Listed(n, cities) == \E j \in 1..Len(cities) : cities[j] = n

\* C14: for every war and every set of accepted names, attackerActive and
\* defenderActive tell whether the name is in the set, bothActive is their
\* conjunction, and the enriched list holds the wars, as extracted, one for one.
C14_EnrichmentFlags ==
    (input.kind = "enrich" /\ output # << >>) =>
        /\ Len(output[1].value) = Len(input.wars)
        /\ \A k \in 1..Len(input.wars) :
               LET w == input.wars[k]
                   e == output[1].value[k]
               IN  /\ e.attackerActive = Listed(w.attacker, input.cities)
                   /\ e.defenderActive = Listed(w.defender, input.cities)
                   /\ e.bothActive = (e.attackerActive /\ e.defenderActive)
                   /\ e.attacker = w.attacker
                   /\ e.defender = w.defender
                   /\ e.missiles = w.missiles
        /\ (input.cities = <<"A", "C">>
            /\ input.wars = <<[attacker |-> "A", defender |-> "B", missiles |-> 5]>>)
               => output[1].value = <<[attacker |-> "A", defender |-> "B", missiles |-> 5,
                                 attackerActive |-> TRUE, defenderActive |-> FALSE,
                                 bothActive |-> FALSE]>>

\* C14 witness: the war of A on B is enriched against the active cities A and C.
C14_Witness ==
    /\ input.kind = "enrich"
    /\ input.cities = <<"A", "C">>
    /\ input.wars = <<[attacker |-> "A", defender |-> "B", missiles |-> 5]>>
    /\ output # << >>

\* The helper fn has returned its result on the text.
Returned(fn) ==
    /\ input.kind = "text"
    /\ output # << >>
    /\ output[1].fn = fn

\* The text has an integer-looking token: a digit.
HasDigit(t) == \E p \in 1..Len(t) : t[p] \in Digits

\* C18: extractNumber returns null when the text has no integer-looking token
\* and otherwise an integer, never NaN.
C18_NullOrInteger ==
    Returned("extractNumber") =>
        LET v == output[1].value
        IN  /\ v.kind \in {"null", "number"}
            /\ v.kind = "number" => v.frac = << >>
            /\ v.kind = "null" <=> ~HasDigit(input.text)

\* The text is a signed decimal number with an optional k/M/G suffix.
IsMagnitude(t) ==
    LET from == IF t # << >> /\ t[1] = "-" THEN 2 ELSE 1
        whole == RunEnd(t, from, Digits)
        point == whole < Len(t) /\ t[whole + 1] = "."
        frac == IF point THEN RunEnd(t, whole + 2, Digits) ELSE whole
        to == IF frac < Len(t) /\ t[frac + 1] \in Suffixes THEN frac + 1 ELSE frac
    IN  /\ whole >= from
        /\ point => frac > whole + 1
        /\ to = Len(t)

\* The places of the text where a "/" stands between two such numbers.
Fractions(t) ==
    {f \in (1..Len(t)) \X (1..Len(t)) \X (1..Len(t)) :
        /\ f[1] < f[2] /\ f[2] < f[3]
        /\ t[f[2]] = "/"
        /\ IsMagnitude(SubSeq(t, f[1], f[2] - 1))
        /\ IsMagnitude(SubSeq(t, f[2] + 1, f[3]))}

\* C17: on a text "A/B" of two signed decimal numbers with optional suffixes
\* extractStatValue returns the pair of parseStatNumber(A) and
\* parseStatNumber(B); on a text with no such pattern it returns
\* parseStatNumber of the text.
C17_PairOrMagnitude ==
    Returned("extractStatValue") =>
        LET t == input.text
        IN  /\ \A f \in Fractions(t) :
                   (f[1] = 1 /\ f[3] = Len(t)) =>
                       output[1].value =
                           [kind |-> "pair",
                            current |-> parseStatNumber(SubSeq(t, 1, f[2] - 1)),
                            max |-> parseStatNumber(SubSeq(t, f[2] + 1, Len(t)))]
            /\ Fractions(t) = {} => output[1].value = parseStatNumber(t)

\* The items of the batch whose city page was requested and whose name is n.
DetailScrapes(n) ==
    {k \in 1..Len(items) : items[k] = n /\ fetch[CityCall(k)].requests > 0}

\* C20: the names of the city list of a run are pairwise distinct, and no
\* city is detail-scraped more than once in the run.
C20_NamesDistinct ==
    /\ cityData # << >> =>
           \A j, k \in 1..Len(cityData[1].cities) :
               j # k => cityData[1].cities[j] # cityData[1].cities[k]
    /\ rpc = "processBatch" =>
           \A n \in 1..MaxCities : Cardinality(DetailScrapes(n)) <= 1

\* A number that is not negative (NaN is not one).
IsNonNegativeNumber(v) == v.kind = "number" /\ ~v.neg

\* C15: validateCity returns false on a record with a required field
\* missing, and the list leaves the record out; on a complete record whose
\* citizens value is not a non-negative number it returns true, the list
\* keeps the record, and a warning is queued.
C15_ValidateCity ==
    (input.kind \in {"city", "entry"} /\ output # << >>
                                      /\ output[1].validated # << >>) =>
        LET city == output[1].record
            listed == output[1].fn = "scrapeCityList"
        IN  /\ MissingCityFields(city) # {} =>
                   /\ output[1].validated = <<FALSE>>
                   /\ output[1].pushed = << >>
            /\ (MissingCityFields(city) = {} /\ ~IsNonNegativeNumber(city.citizens)) =>
                   /\ output[1].validated = <<TRUE>>
                   /\ listed => output[1].pushed = <<city>>
                   /\ Len(warnings) = 1

\* C16: whatever validateCityDetails returns and whatever it queues,
\* scrapeCity returns the extracted record, with every field of the detail
\* record and an empty container for each section the page lacks; an entry
\* of the list or of the wars is pushed exactly when its validator accepts it.
C16_DetailNeverSuppressed ==
    /\ (input.kind = "page" /\ output # << >>) =>
           LET d == output[1].value
           IN  /\ DOMAIN d = DetailFields
               /\ d = CityDetails(input.name, input)
               /\ input.stat = << >> => IsEmpty(d.stats)
               /\ input.levels = 0 => IsEmpty(d.jobLevels)
               /\ input.resources = 0 => IsEmpty(d.resources)
               /\ input.sections = << >> => IsEmpty(d.buildings)
               /\ input.sanctions = 0 => IsEmpty(d.sanctionedBy)
    /\ (input.kind \in {"entry", "war"} /\ output # << >>) =>
           /\ output[1].validated = <<FALSE>> => output[1].pushed = << >>
           /\ output[1].validated = <<TRUE>> => output[1].pushed = <<output[1].record>>

\* C16 witness: validateCityDetails rejected the record of a page, a warning
\* is queued, and scrapeCity has returned the record.
C16_Witness ==
    /\ input.kind = "page"
    /\ output # << >>
    /\ output[1].validated = <<FALSE>>
    /\ warnings # << >>
    /\ DOMAIN output[1].value = DetailFields

\* The count cell of the section is there and holds a number.
IsPopulated(cell) == cell # << >> /\ HasDigit(cell[1])

\* C19: every building section of the page has its key in buildings; the
\* key of a section with no populated count cell holds 0 and the key of a
\* section with a count cell holds the count (for a name that occurs more
\* than once, of its last section).
C19_EverySectionHasKey ==
    (input.kind = "page" /\ output # << >>) =>
        LET b == output[1].value.buildings
            ss == input.sections
        IN  \A k \in 1..Len(ss) :
                /\ ss[k].name \in DOMAIN b
                /\ (\A j \in (k + 1)..Len(ss) : ss[j].name # ss[k].name) =>
                       b[ss[k].name] = IF IsPopulated(ss[k].cell)
                                       THEN extractNumber(ss[k].cell[1])
                                       ELSE Zero

(* ------------------------- claims: files and exit ----------------------- *)

\* The order in which runFullScrape writes the flat files.
FileOrder == <<"cities.json", "wars.json", "city_details.json">>

\* C21: a run that completes has written each of the three flat files exactly
\* once, in the order cities.json, wars.json, city_details.json (at every
\* moment the files written so far are the first ones of that order), and a
\* written file holds the data of the current run only.
C21_FilesWrittenOnceInOrder ==
    /\ \A n \in 1..Len(FileOrder) :
           LET f == files[FileOrder[n]]
           IN  /\ f \in {[run |-> "previous", writes |-> 0], [run |-> "current", writes |-> 1]}
               /\ (f.writes = 1 /\ n > 1) => files[FileOrder[n - 1]].writes = 1
    /\ rpc = "resolved" =>
           \A n \in 1..Len(FileOrder) : files[FileOrder[n]] = [run |-> "current", writes |-> 1]

\* C21 witness: a run without a database has completed with its three files
\* written.
C21_Witness ==
    /\ rpc = "resolved"
    /\ ~database
    /\ \A f \in FileNames : files[f].writes = 1

\* C22: the process exits with status 0 only when runFullScrape resolved and
\* with status 1 only when it rejected, the rejection being logged before the
\* exit; a phase-1 or phase-2 failure ends in a non-zero status.
C22_ExitStatus ==
    exit # << >> =>
        /\ exit = <<0>> <=> rpc = "resolved"
        /\ exit = <<1>> <=> rpc = "rejected"
        /\ rpc = "rejected" => stderr = <<cause>>
        /\ rpc = "resolved" => stderr = << >>
        /\ cause \in {"cityList", "wars"} => exit # <<0>>

\* C22 witness: the wars phase failed and the process has exited with 1.
C22_Witness ==
    /\ exit = <<1>>
    /\ cause = "wars"
    /\ stderr = <<"wars">>

\* C26 (as claimed): the wrapper logs the success line when the scraper
\* exited with status 0 and the failure line with the scraper's exit status
\* when it exited with another status.
C26_WrapperLogsStatus ==
    wrapper # << >> =>
        /\ exit = <<0>> => wrapper[1].line = "completed successfully"
        /\ exit # <<0>> =>
               /\ wrapper[1].line = "failed with exit code"
               /\ wrapper[1].code = exit

(* ------------------- claims: pacing, retries, order --------------------- *)

\* ceil(n / c), for c >= 1
Ceil(n, c) == (n + c - 1) \div c

\* C23: for a concurrency of at least 1, a pacing delay runs only when a
\* further window follows; while the window that starts at i is awaited or
\* paced, i / concurrency delays have elapsed; a call that has returned paced
\* ceil(N / C) - 1 times for N > 0 items and never for no items.
C23_PacingBetweenWindows ==
    concurrency >= 1 =>
        /\ bpc = "pacing" => i + concurrency < Len(items)
        /\ bpc \in {"await", "pacing"} => pacings = i \div concurrency
        /\ bpc = "returned" =>
               pacings = IF Len(items) = 0 THEN 0 ELSE Ceil(Len(items), concurrency) - 1

\* C23 witness: three items in windows of two have been processed with one
\* pacing delay.
C23_Witness ==
    /\ bpc = "returned"
    /\ Len(items) = 3
    /\ concurrency = 2
    /\ pacings = 1

\* C24 (as claimed): a scraper constructed with maxRetries = m, m >= 0, makes
\* at most m + 1 requests per call of fetchWithRetry, and the default of
\* three retries is used only when the option is not given.
C24_MaxRetriesOption ==
    /\ options.maxRetries # NotGiven =>
           /\ maxRetries = options.maxRetries[1]
           /\ \A c \in Calls : fetch[c].requests <= options.maxRetries[1] + 1
    /\ options.maxRetries = NotGiven => maxRetries = DefaultMaxRetries

(* ------------------------ claims: the shared logs ------------------------ *)

\* The entries of this.warnings queued for the page of item k.
WarningEntries(k) == {w \in 1..Len(warnings) : warnings[w].subject = k}

\* Sequence s is the beginning of sequence t.
IsPrefix(s, t) == Len(s) <= Len(t) /\ SubSeq(t, 1, Len(s)) = s

\* C25: whatever the interleaving of the detail extractions of a window and
\* of their retries, no step of the run after its start removes or changes an
\* entry of this.errors or this.warnings, every failed detail scrape has
\* exactly one error entry, and every warning belongs to one returned record
\* and is there once.
C25_NoEntryLost ==
    /\ [](\A k \in 1..MaxItems :
              /\ Cardinality(ErrorEntries("city", k)) =
                     (IF op[k].value.kind = "failed" THEN 1 ELSE 0)
              /\ Cardinality(WarningEntries(k)) <=
                     (IF op[k].value.kind = "detail" THEN 1 ELSE 0))
    /\ [][rpc # "idle" => /\ IsPrefix(thisErrors, thisErrors')
                          /\ IsPrefix(warnings, warnings')]_vars

\* C25 witness: a run has resolved whose two cities shared a window and were
\* both fetched again after a failed request; city 2 failed and has its error
\* entry, city 1 was extracted and has its warning.
C25_Witness ==
    /\ rpc = "resolved"
    /\ Len(items) = 2
    /\ concurrency >= 2
    /\ fetch[CityCall(1)].requests = 2
    /\ fetch[CityCall(2)].requests = 2
    /\ thisErrors = <<[type |-> "city", item |-> 2]>>
    /\ warnings = <<[type |-> "IncompleteCityDetails", about |-> "stats", subject |-> 1]>>

(* --------------------- claims: failures and their frame ------------------ *)

\* C27: when the wars fetch has failed for good, cities.json holds the city
\* list of the current run, wars.json and city_details.json are as the
\* previous run left them, no city page was requested, no database call was
\* made, and this.errors holds an entry of type 'wars' when runFullScrape
\* rejects; when the city list failed, none of the three files was written.
C27_WarsFailureFrame ==
    /\ cause = "wars" =>
           /\ rpc = "rejected"
           /\ files["cities.json"] = [run |-> "current", writes |-> 1]
           /\ files["wars.json"] = [run |-> "previous", writes |-> 0]
           /\ files["city_details.json"] = [run |-> "previous", writes |-> 0]
           /\ \A k \in 1..MaxItems : fetch[CityCall(k)].requests = 0
           /\ bpc = "idle"
           /\ dbLog = << >>
           /\ Cardinality(ErrorEntries("wars", 0)) = 1
    /\ fetch[WarsCall].pc = "thrown" =>
           /\ cause = "wars"
           /\ fetch[WarsCall].requests = maxRetries + 1
    /\ cause = "cityList" =>
           /\ rpc = "rejected"
           /\ \A f \in FileNames : files[f] = [run |-> "previous", writes |-> 0]
           /\ fetch[WarsCall].requests = 0

\* C27 witness: the wars fetch was retried and failed for good in a run that
\* had listed two cities.
C27_Witness ==
    /\ cause = "wars"
    /\ fetch[WarsCall].pc = "thrown"
    /\ fetch[WarsCall].requests >= 2
    /\ Len(cityData[1].cities) = 2

\* C28: a failed database call is the last database call of the run: the
\* calls after it in the order of DbCalls are never made, and the calls before
\* it have completed.
C28_NoCallAfterFailure ==
    \A n \in 1..Len(dbLog) :
        dbLog[n].status = "failed" =>
            /\ n = Len(dbLog)
            /\ rpc = "resolved"
            /\ \A j \in 1..(n - 1) : dbLog[j].status = "done"

\* C28 witness: saveCities failed after saveScrapeRun had stored the run's
\* row; saveWars and saveCityDetails were not called.
C28_Witness ==
    /\ rpc = "resolved"
    /\ Len(dbLog) = 4
    /\ dbLog[2].status = "done"
    /\ dbLog[2].runId # << >>
    /\ dbLog[4] = [call |-> "saveCities", runId |-> dbLog[2].runId, status |-> "failed"]

(* ----------------------- claims: order and termination ------------------- *)

\* The items whose operation returned a value.
Succeeded == {k \in 1..Len(items) : op[k].state = "fulfilled" /\ op[k].value.kind = "value"}

\* C29: results holds the values in the order of their items at every moment,
\* and when processBatch returns it holds exactly the values the operations
\* returned, each at the place of its item among them, in whatever order the
\* operations of a window settled.
C29_ResultsInItemOrder ==
    /\ \A a, b \in 1..Len(results) : a < b => results[a].item < results[b].item
    /\ bpc = "returned" =>
           /\ {results[a].item : a \in 1..Len(results)} = Succeeded
           /\ \A a \in 1..Len(results) : results[a] = op[results[a].item].value

\* C29 witness: processBatch has returned two values of one window whose
\* operations settled in the reverse order of their items.
C29_Witness ==
    /\ bpc = "returned"
    /\ concurrency >= 2
    /\ \E a, b \in 1..Len(settled) :
           /\ a < b
           /\ settled[a] > settled[b]
           /\ WindowOf(settled[a], concurrency) = WindowOf(settled[b], concurrency)
           /\ {settled[a], settled[b]} \subseteq Succeeded

\* C30 (as claimed): for every item sequence and every concurrency C >= 0, a
\* call of processBatch whose started operations all settle comes to an end.
\* The end is the return of {results, errors}; the rejection that a thrown
\* null or undefined causes (C4) is counted as an end too, so that only a call
\* that goes on for ever violates the formula.
C30_Terminates == (bpc # "idle") ~> (bpc \in {"returned", "rejected"})

=============================================================================
